---- MODULE Spec2Model ----
(***************************************************************************)
(* A model of the action-priority-list formatter of src/main.rs: the       *)
(* tokenizer, the expression parser, the pretty printer, the condition     *)
(* transformer, the line processor and the script grouper.                 *)
(*                                                                         *)
(* Text is a sequence of one-character strings; a token is such a text.    *)
(* An expression is a record [tag, text, parts] with tag "Atom", "And" or  *)
(* "Or" (text is used by Atom, parts by And and Or).                       *)
(***************************************************************************)
EXTENDS Integers, Sequences, FiniteSets, TLC

VARIABLES
    pc,       \* the position of the pipeline under study
    line,     \* tokenizer: the text handed to tokenize_line
    pos,      \* tokenizer: where find_iter resumes its search (1-based)
    matches,  \* tokenizer: the matches found so far, [start, end] inclusive
    tokens,   \* the token sequence (tokenizer output / parser input)
    expr,     \* parser: the tree parse_expr returned
    wexpr,    \* parser: the tree parse_expr returned for "(" tokens ")"
    indent,   \* printer: the indent level of the last call
    out,      \* printer: the text of the last rendering
    raw,      \* transformer: the raw condition
    res,      \* line processor: what process_line returned
    apl,      \* grouper: the script text
    idx,      \* grouper: the number of lines of the script consumed
    groups    \* grouper: the BTreeMap, as a key-ordered sequence of [key, entries]

vars == <<pc, line, pos, matches, tokens, expr, wexpr, indent, out, raw, res, apl, idx, groups>>

-----------------------------------------------------------------------------
(* Bounds of the model.                                                    *)

MaxLineLen == 4
MaxTokens == 4
MaxNest == 4
MaxIndent == 2
MaxLines == 3
MaxOperands == 2

-----------------------------------------------------------------------------
(* Text helpers.                                                           *)

\* The characters of the model in code-point order (str's Ord compares bytes).
CodeOrder ==
    << "\t", "\n", "\r", " ", "!", "#", "&", "(", ")", "+", ",", ".", "/",
       "0", "1", "2", "3", "4", "5", "6", "7", "8", "9", ":", "<", "=", ">",
       "A", "B", "C", "D", "E", "F", "G", "H", "I", "J", "K", "L", "M",
       "N", "O", "P", "Q", "R", "S", "T", "U", "V", "W", "X", "Y", "Z", "_",
       "a", "b", "c", "d", "e", "f", "g", "h", "i", "j", "k", "l", "m",
       "n", "o", "p", "q", "r", "s", "t", "u", "v", "w", "x", "y", "z", "|" >>

Code(c) == CHOOSE k \in 1..Len(CodeOrder) : CodeOrder[k] = c

\* char::is_whitespace, and the regex class \s, on the characters of the model.
WhiteSpace == {" ", "\t", "\n", "\r"}

\* The regex class [a-zA-Z0-9_\.] of NOT_TALENT_RE and TALENT_RE.
IdentChars ==
    { "0", "1", "2", "3", "4", "5", "6", "7", "8", "9", "_", ".",
      "A", "B", "C", "D", "E", "F", "G", "H", "I", "J", "K", "L", "M",
      "N", "O", "P", "Q", "R", "S", "T", "U", "V", "W", "X", "Y", "Z",
      "a", "b", "c", "d", "e", "f", "g", "h", "i", "j", "k", "l", "m",
      "n", "o", "p", "q", "r", "s", "t", "u", "v", "w", "x", "y", "z" }

\* The characters the token pattern excludes from an identifier run.
OpChars == {"<", ">", "=", "&", "|", "(", ")"}

\* Whether text sub occurs in s at index i.
OccursAt(sub, s, i) ==
    /\ i >= 1
    /\ i + Len(sub) - 1 <= Len(s)
    /\ \A k \in 1..Len(sub) : s[i + k - 1] = sub[k]

\* str::find: the index of the first occurrence of sub in s, 0 when there is none.
Find(sub, s) ==
    IF \E i \in 1..Len(s) : OccursAt(sub, s, i)
    THEN CHOOSE i \in 1..Len(s) :
            /\ OccursAt(sub, s, i)
            /\ \A j \in 1..(i - 1) : ~OccursAt(sub, s, j)
    ELSE 0

\* str::trim: leading and trailing whitespace removed.
TrimStart(s) ==
    IF \A i \in 1..Len(s) : s[i] \in WhiteSpace
    THEN << >>
    ELSE LET f == CHOOSE i \in 1..Len(s) :
                      /\ s[i] \notin WhiteSpace
                      /\ \A j \in 1..(i - 1) : s[j] \in WhiteSpace
         IN SubSeq(s, f, Len(s))

TrimEnd(s) ==
    IF \A i \in 1..Len(s) : s[i] \in WhiteSpace
    THEN << >>
    ELSE LET l == CHOOSE i \in 1..Len(s) :
                      /\ s[i] \notin WhiteSpace
                      /\ \A j \in (i + 1)..Len(s) : s[j] \in WhiteSpace
         IN SubSeq(s, 1, l)

Trim(s) == TrimEnd(TrimStart(s))

\* str::starts_with.
StartsWith(s, prefix) == OccursAt(prefix, s, 1)

\* slice::join: the texts of a sequence joined by sep.
RECURSIVE Join(_, _)
Join(ss, sep) ==
    IF Len(ss) = 0 THEN << >>
    ELSE IF Len(ss) = 1 THEN ss[1]
    ELSE ss[1] \o sep \o Join(Tail(ss), sep)

\* str::repeat.
RECURSIVE Repeat(_, _)
Repeat(s, n) == IF n = 0 THEN << >> ELSE s \o Repeat(s, n - 1)

\* str::replace: every non-overlapping occurrence of from removed, left to right
\* (the code only ever replaces by the empty string).
RECURSIVE Remove(_, _)
Remove(s, from) ==
    LET i == Find(from, s)
    IN IF i = 0 THEN s
       ELSE SubSeq(s, 1, i - 1) \o Remove(SubSeq(s, i + Len(from), Len(s)), from)

-----------------------------------------------------------------------------
(* The tokenizer: TOKEN_RE and tokenize_line.                              *)

\* The length of the match of TOKEN_RE that starts at index i of s, 0 when the
\* pattern does not match there.  The alternatives are tried in the order in
\* which the pattern lists them; the last one, a run, is greedy.
RunEnd(s, i) ==
    CHOOSE e \in i..Len(s) :
        /\ \A k \in i..e : s[k] \notin OpChars \cup WhiteSpace
        /\ (e = Len(s) \/ s[e + 1] \in OpChars \cup WhiteSpace)

TOKEN_RE_SingleFirst(s, i) ==
    IF s[i] \in OpChars THEN 1
    ELSE IF s[i] \in WhiteSpace THEN 0
    ELSE RunEnd(s, i) - i + 1

TOKEN_RE(s, i) ==
    IF OccursAt(<<"<", "=">>, s, i) THEN 2
    ELSE IF OccursAt(<<">", "=">>, s, i) THEN 2
    ELSE IF s[i] \in OpChars THEN 1
    ELSE IF s[i] \in WhiteSpace THEN 0
    ELSE RunEnd(s, i) - i + 1

\* Whether find_iter has a further match at or after index p.
HasMatch(s, p) == \E i \in p..Len(s) : TOKEN_RE(s, i) > 0

\* The next match of find_iter from index p: the leftmost one.
NextMatch(s, p) ==
    LET i == CHOOSE i \in p..Len(s) :
                 /\ TOKEN_RE(s, i) > 0
                 /\ \A j \in p..(i - 1) : TOKEN_RE(s, j) = 0
    IN [start |-> i, end |-> i + TOKEN_RE(s, i) - 1]

\* All the matches of find_iter from index p on.
RECURSIVE FindIter(_, _)
FindIter(s, p) ==
    IF ~HasMatch(s, p) THEN << >>
    ELSE LET m == NextMatch(s, p) IN <<m>> \o FindIter(s, m.end + 1)

\* m.as_str() of every match.
AsStrs(s, ms) == [k \in 1..Len(ms) |-> SubSeq(s, ms[k].start, ms[k].end)]

tokenize_line(s) == AsStrs(s, FindIter(s, 1))

-----------------------------------------------------------------------------
(* The expression parser: Expr, split_top_level and parse_expr.            *)

LParen == <<"(">>
RParen == <<")">>
OrTok == <<"o", "r">>
AndTok == <<"a", "n", "d">>
Space == <<" ">>
Newline == <<"\n">>

\* enum Expr.
Atom(s) == [tag |-> "Atom", text |-> s, parts |-> << >>]
And(ps) == [tag |-> "And", text |-> << >>, parts |-> ps]
Or(ps) == [tag |-> "Or", text |-> << >>, parts |-> ps]

\* The loop of split_top_level from token i on, with the depth counter, the
\* start of the current part and the parts pushed so far.  The empty sequence
\* stands for None.
RECURSIVE SplitScan(_, _, _, _, _, _)
SplitScan(toks, op, i, depth, last, parts) ==
    IF i > Len(toks)
    THEN IF parts = << >> THEN << >>
         ELSE Append(parts, SubSeq(toks, last, Len(toks)))
    ELSE IF toks[i] = LParen THEN SplitScan(toks, op, i + 1, depth + 1, last, parts)
    ELSE IF toks[i] = RParen THEN SplitScan(toks, op, i + 1, depth - 1, last, parts)
    ELSE IF depth = 0 /\ toks[i] = op
         THEN SplitScan(toks, op, i + 1, depth, i + 1,
                        Append(parts, SubSeq(toks, last, i - 1)))
    ELSE SplitScan(toks, op, i + 1, depth, last, parts)

split_top_level(toks, op) == SplitScan(toks, op, 1, 0, 1, << >>)

\* The loop of parse_expr over inner_tokens: FALSE as soon as the depth goes
\* negative (is_single_group = false), else whether the depth ends at 0.
RECURSIVE GroupScan(_, _, _)
GroupScan(inner, i, depth) ==
    IF i > Len(inner) THEN depth = 0
    ELSE LET d == IF inner[i] = LParen THEN depth + 1
                  ELSE IF inner[i] = RParen THEN depth - 1
                  ELSE depth
         IN IF d < 0 THEN FALSE ELSE GroupScan(inner, i + 1, d)

\* The test of parse_expr for one redundant pair of parentheses around toks.
IsSingleGroup_NoDepthCheck(toks) ==
    /\ Len(toks) >= 2
    /\ toks[1] = LParen
    /\ toks[Len(toks)] = RParen

IsSingleGroup(toks) ==
    /\ Len(toks) >= 2
    /\ toks[1] = LParen
    /\ toks[Len(toks)] = RParen
    /\ GroupScan(SubSeq(toks, 2, Len(toks) - 1), 1, 0)

\* Expr::Atom(tokens.join(" ")).
AtomOf_Concatenated(toks) == Atom(Join(toks, << >>))

AtomOf(toks) == Atom(Join(toks, Space))

RECURSIVE parse_expr(_)

Children(parts) == [k \in 1..Len(parts) |-> parse_expr(parts[k])]

parse_expr_AndFirst(toks) ==
    LET ands == split_top_level(toks, AndTok)
        ors == split_top_level(toks, OrTok)
    IN IF ands # << >> THEN And(Children(ands))
       ELSE IF ors # << >> THEN Or(Children(ors))
       ELSE IF IsSingleGroup(toks) THEN parse_expr(SubSeq(toks, 2, Len(toks) - 1))
       ELSE AtomOf(toks)

parse_expr(toks) ==
    LET ors == split_top_level(toks, OrTok)
        ands == split_top_level(toks, AndTok)
    IN IF ors # << >> THEN Or(Children(ors))
       ELSE IF ands # << >> THEN And(Children(ands))
       ELSE IF IsSingleGroup(toks) THEN parse_expr(SubSeq(toks, 2, Len(toks) - 1))
       ELSE AtomOf(toks)

-----------------------------------------------------------------------------
(* The pretty printer: pretty_format_condition.                            *)

\* "    ".repeat(indent).
IndentStr_Three(n) == Repeat(<<" ", " ", " ">>, n)

IndentStr(n) == Repeat(<<" ", " ", " ", " ">>, n)

IsMultilineOr(part) == part.tag = "Or" /\ Len(part.parts) > 1

RECURSIVE pretty_format_condition(_, _)

\* The closure of the And arm: the fragment of one child.
AndPart(part, n) ==
    IF IsMultilineOr(part)
    THEN LParen \o Newline \o pretty_format_condition(part, n + 1)
         \o Newline \o IndentStr(n) \o RParen
    ELSE Trim(pretty_format_condition(part, 0))

\* The closure of the Or arm: the rendering of child i.
OrPart(parts, i, n) ==
    IF i = 1 THEN pretty_format_condition(parts[i], n)
    ELSE IndentStr(n) \o <<"O", "R", " ">> \o Trim(pretty_format_condition(parts[i], 0))

pretty_format_condition(e, n) ==
    IF e.tag = "Atom" THEN IndentStr(n) \o e.text
    ELSE IF Len(e.parts) = 0 THEN << >>
    ELSE IF Len(e.parts) = 1 THEN pretty_format_condition(e.parts[1], n)
    ELSE IF e.tag = "And"
    THEN IndentStr(n)
         \o Join([k \in 1..Len(e.parts) |-> AndPart(e.parts[k], n)],
                 <<" ", "A", "N", "D", " ">>)
    ELSE Join([k \in 1..Len(e.parts) |-> OrPart(e.parts, k, n)], Newline)

-----------------------------------------------------------------------------
(* The condition transformer: NOT_TALENT_RE, TALENT_RE, transform_condition. *)

\* The end of the greedy run ([a-zA-Z0-9_\.]+) that starts at index i of s.
IdentEnd(s, i) ==
    CHOOSE e \in i..Len(s) :
        /\ \A k \in i..e : s[k] \in IdentChars
        /\ (e = Len(s) \/ s[e + 1] \notin IdentChars)

\* Regex::replace_all(s, "$1" \o suffix) for the pattern prefix([a-zA-Z0-9_\.]+):
\* the leftmost matches, left to right, none overlapping.
RECURSIVE ReplaceAll(_, _, _)
ReplaceAll(s, prefix, suffix) ==
    IF s = << >> THEN << >>
    ELSE IF /\ OccursAt(prefix, s, 1)
            /\ Len(s) > Len(prefix)
            /\ s[Len(prefix) + 1] \in IdentChars
    THEN LET e == IdentEnd(s, Len(prefix) + 1)
         IN SubSeq(s, Len(prefix) + 1, e) \o suffix
            \o ReplaceAll(SubSeq(s, e + 1, Len(s)), prefix, suffix)
    ELSE <<s[1]>> \o ReplaceAll(Tail(s), prefix, suffix)

NOT_TALENT_RE(s) == ReplaceAll(s, <<"!", "t", "a", "l", "e", "n", "t", ".">>, <<" ", "n", "o", "t", " ", "t", "a", "l", "e", "n", "t", "e", "d">>)

TALENT_RE(s) == ReplaceAll(s, <<"t", "a", "l", "e", "n", "t", ".">>, <<" ", "t", "a", "l", "e", "n", "t", "e", "d">>)

\* The two replace_all calls of transform_condition.
Substitute(s) == TALENT_RE(NOT_TALENT_RE(s))

\* The match of transform_condition on one token.
MapToken_KeepSymbols(tok) ==
    IF tok = <<"&">> THEN AndTok
    ELSE IF tok = <<"|">> THEN OrTok
    ELSE IF tok = <<"!">> THEN <<"n", "o", "t">>
    ELSE tok

MapToken(tok) ==
    IF tok = <<"&">> THEN AndTok
    ELSE IF tok = <<"|">> THEN OrTok
    ELSE IF tok = <<"!">> THEN <<"n", "o", "t">>
    ELSE Remove(Remove(tok, <<"d", "e", "b", "u", "f", "f", ".">>), <<"b", "u", "f", "f", ".">>)

MapTokens(toks) == [k \in 1..Len(toks) |-> MapToken(toks[k])]

transform_condition(s) ==
    pretty_format_condition(parse_expr(MapTokens(tokenize_line(Substitute(s)))), 1)

-----------------------------------------------------------------------------
(* The line processor: process_line.                                       *)

\* str::split_once: [found, a, b], split at the first occurrence of sep.
split_once(s, sep) ==
    LET i == Find(sep, s)
    IN IF i = 0 THEN [found |-> FALSE, a |-> << >>, b |-> << >>]
       ELSE [found |-> TRUE,
             a |-> SubSeq(s, 1, i - 1),
             b |-> SubSeq(s, i + Len(sep), Len(s))]

\* str::strip_prefix(..).unwrap_or(s).
StripPrefix(s, prefix) ==
    IF StartsWith(s, prefix) THEN SubSeq(s, Len(prefix) + 1, Len(s)) ELSE s

NoResult == [some |-> FALSE, key |-> << >>, entry |-> << >>]

\* The rest of process_line once the line is split into a and b.
Processed(a, b) ==
    LET when == StripPrefix(Trim(a), <<"a", "c", "t", "i", "o", "n", "s", ".">>)
        c == split_once(Trim(b), <<",", "i", "f", "=">>)
    IN IF c.found
       THEN [some |-> TRUE, key |-> when,
             entry |-> Trim(c.a) \o <<":", "\n">> \o transform_condition(Trim(c.b))]
       ELSE [some |-> TRUE, key |-> when, entry |-> Trim(Trim(b))]

process_line_EqualsFirst(l) ==
    LET eq == split_once(l, <<"=">>)
    IN IF eq.found THEN Processed(eq.a, eq.b) ELSE NoResult

process_line(l) ==
    LET plus == split_once(l, <<"+", "=", "/">>)
        eq == split_once(l, <<"=">>)
    IN IF plus.found THEN Processed(plus.a, plus.b)
       ELSE IF eq.found THEN Processed(eq.a, eq.b)
       ELSE NoResult

-----------------------------------------------------------------------------
(* The script grouper: process_apl_grouped.                                *)

\* str::lines: the text split at "\n", a "\r" before the "\n" dropped with it,
\* and no last empty line after a final "\n".
RECURSIVE Lines(_)
Lines(s) ==
    IF s = << >> THEN << >>
    ELSE LET i == Find(Newline, s)
         IN IF i = 0 THEN <<s>>
            ELSE LET l == SubSeq(s, 1, i - 1)
                     l1 == IF Len(l) > 0 /\ l[Len(l)] = "\r"
                           THEN SubSeq(l, 1, Len(l) - 1) ELSE l
                 IN <<l1>> \o Lines(SubSeq(s, i + 1, Len(s)))

\* Ord for String: the byte-wise lexicographic order.
RECURSIVE Less(_, _)
Less(s, t) ==
    IF t = << >> THEN FALSE
    ELSE IF s = << >> THEN TRUE
    ELSE IF s[1] # t[1] THEN Code(s[1]) < Code(t[1])
    ELSE Less(Tail(s), Tail(t))

\* groups.entry(when).or_insert_with(Vec::new).push(x) on a BTreeMap kept as
\* the sequence of its [key, entries] in iteration order.
Push_InsertionOrder(g, when, x) ==
    IF \E k \in 1..Len(g) : g[k].key = when
    THEN [k \in 1..Len(g) |->
             IF g[k].key = when
             THEN [key |-> when, entries |-> Append(g[k].entries, x)]
             ELSE g[k]]
    ELSE Append(g, [key |-> when, entries |-> <<x>>])

Push(g, when, x) ==
    IF \E k \in 1..Len(g) : g[k].key = when
    THEN [k \in 1..Len(g) |->
             IF g[k].key = when
             THEN [key |-> when, entries |-> Append(g[k].entries, x)]
             ELSE g[k]]
    ELSE LET n == Cardinality({k \in 1..Len(g) : Less(g[k].key, when)})
         IN SubSeq(g, 1, n) \o <<[key |-> when, entries |-> <<x>>]>>
            \o SubSeq(g, n + 1, Len(g))

\* One iteration of the loop of process_apl_grouped.
LoopBody(g, l) ==
    LET trimmed_line == Trim(l)
    IN IF trimmed_line = << >> \/ StartsWith(trimmed_line, <<"#">>) THEN g
       ELSE LET r == process_line(trimmed_line)
            IN IF r.some THEN Push(g, r.key, r.entry) ELSE g

RECURSIVE GroupLines(_, _)
GroupLines(g, ls) ==
    IF ls = << >> THEN g ELSE GroupLines(LoopBody(g, Head(ls)), Tail(ls))

process_apl_grouped(s) == GroupLines(<< >>, Lines(s))

-----------------------------------------------------------------------------
(* Inputs and the values of the variables a specification does not use.    *)

\* All the sequences over S of length at most n.
AllSeqs(S, n) == UNION {[1..k -> S] : k \in 0..n}

Unused == << >>

TokIdle == line = Unused /\ pos = 0 /\ matches = Unused

ParseIdle == expr = Unused /\ wexpr = Unused /\ indent = 0 /\ out = Unused

LineIdle == raw = Unused /\ res = Unused

GroupIdle == apl = Unused /\ idx = 0 /\ groups = Unused

-----------------------------------------------------------------------------
(* The tokenizer at work: find_iter yields one match per step, and          *)
(* tokenize_line collects the text of every match.                         *)

TokAlphabet == {"d", "<", ">", "=", "&", "(", " "}

TokExamples == {<<"d", "m", "g", "<", "=", "5">>, <<"(", "a", "|", "b", ")", ">", "=", "c">>, <<"x", " ", "<", "=", " ", "y">>, <<"a", "<", ">", "=", "b">>}

TokInputs == AllSeqs(TokAlphabet, MaxLineLen) \cup TokExamples

InitTok ==
    /\ pc = "scan"
    /\ line \in TokInputs
    /\ pos = 1
    /\ matches = << >>
    /\ tokens = << >>
    /\ ParseIdle /\ LineIdle /\ GroupIdle

FindNext ==
    /\ pc = "scan"
    /\ HasMatch(line, pos)
    /\ LET m == NextMatch(line, pos)
       IN /\ matches' = Append(matches, m)
          /\ pos' = m.end + 1
    /\ UNCHANGED <<pc, line, tokens, expr, wexpr, indent, out, raw, res, apl, idx, groups>>

Collect ==
    /\ pc = "scan"
    /\ ~HasMatch(line, pos)
    /\ tokens' = AsStrs(line, matches)
    /\ pc' = "collected"
    /\ UNCHANGED <<line, pos, matches, expr, wexpr, indent, out, raw, res, apl, idx, groups>>

NextTok == FindNext \/ Collect

SpecTok == InitTok /\ [][NextTok]_vars

-----------------------------------------------------------------------------
(* The parser and the printer at work on a token sequence.                 *)

ParserAlphabet == {<<"a">>, <<"b">>, OrTok, AndTok, LParen, RParen, << >>}

ParserExamples ==
    { <<<<"a">>, <<"a", "n", "d">>, <<"b">>, <<"o", "r">>, <<"c">>>>,
      <<<<"(">>, <<"a">>, <<"a", "n", "d">>, <<"b">>, <<")">>>>,
      <<<<"(">>, <<"a">>, <<")">>, <<"x">>, <<"(">>, <<"b">>, <<")">>>>,
      <<<<"a">>, <<"o", "r">>, <<"b">>, <<"a", "n", "d">>, <<"(">>, <<"c">>, <<"o", "r">>, <<"d">>, <<")">>>>,
      <<<<"a">>, <<"a", "n", "d">>, <<"(">>, <<"b">>, <<"a", "n", "d">>, <<"(">>, <<"c">>, <<"o", "r">>, <<"d">>, <<")">>, <<")">>>> }

\* Token sequences nested k levels deeper than those of S: a group, or a group
\* or sequence joined to a further operand.
RECURSIVE Nested(_, _)
Nested(S, k) ==
    IF k = 0 THEN S
    ELSE Nested(S \cup {<<LParen>> \o t \o <<RParen>> : t \in S}
                  \cup {<<<<"a">>, op>> \o t : op \in {OrTok, AndTok}, t \in S},
                k - 1)

NestSeeds == {<<<<"a">>, <<"o", "r">>, <<"b">>>>, <<<<"o", "r">>>>}

ParserInputs ==
    AllSeqs(ParserAlphabet, MaxTokens) \cup ParserExamples \cup Nested(NestSeeds, MaxNest)

InitParse ==
    /\ pc = "tokens"
    /\ tokens \in ParserInputs
    /\ expr = << >>
    /\ wexpr = << >>
    /\ indent = 0
    /\ out = << >>
    /\ TokIdle /\ LineIdle /\ GroupIdle

Parse ==
    /\ pc = "tokens"
    /\ expr' = parse_expr(tokens)
    /\ pc' = "parsed"
    /\ UNCHANGED <<line, pos, matches, tokens, wexpr, indent, out, raw, res, apl, idx, groups>>

ParseGrouped ==
    /\ pc = "parsed"
    /\ wexpr' = parse_expr(<<LParen>> \o tokens \o <<RParen>>)
    /\ pc' = "grouped"
    /\ UNCHANGED <<line, pos, matches, tokens, expr, indent, out, raw, res, apl, idx, groups>>

Render ==
    /\ pc = "grouped"
    /\ \E n \in 0..MaxIndent :
          /\ indent' = n
          /\ out' = pretty_format_condition(expr, n)
    /\ pc' = "rendered"
    /\ UNCHANGED <<line, pos, matches, tokens, expr, wexpr, raw, res, apl, idx, groups>>

NextParse == Parse \/ ParseGrouped \/ Render

SpecParse == InitParse /\ [][NextParse]_vars

-----------------------------------------------------------------------------
(* The condition transformer at work: the steps of transform_condition.    *)

CondOperands ==
    { <<"b", "u", "f", "f", ".", "s", "t", "a", "c", "k", "s", ">", "=", "3">>, <<"t", "a", "l", "e", "n", "t", ".", "p", "y", "r", "o", "m", "a", "n", "i", "a">>, <<"!", "t", "a", "l", "e", "n", "t", ".", "x", ".", "y">>,
      <<"!", "d", "e", "b", "u", "f", "f", ".", "b", "u", "r", "n", "i", "n", "g">>, <<"m", "a", "n", "a", ">", "5", "0">>, <<"!", "(", "a", "|", "b", ")">>, <<"b", "u", "f", "f", ".">> }

CondOperators == {<<"&">>, <<"|">>, <<" ">>}

\* The conditions made of at most n operands.
RECURSIVE CondsOf(_)
CondsOf(n) ==
    IF n = 0 THEN {<< >>}
    ELSE IF n = 1 THEN CondOperands
    ELSE CondsOf(n - 1)
         \cup {c \o op \o x : c \in CondsOf(n - 1), op \in CondOperators, x \in CondOperands}

Conditions == CondsOf(MaxOperands)

InitCond ==
    /\ pc = "raw"
    /\ raw \in Conditions
    /\ line = << >>
    /\ tokens = << >>
    /\ expr = << >>
    /\ out = << >>
    /\ indent = 0
    /\ pos = 0 /\ matches = Unused /\ wexpr = Unused /\ res = Unused
    /\ GroupIdle

Replace ==
    /\ pc = "raw"
    /\ line' = Substitute(raw)
    /\ pc' = "replaced"
    /\ UNCHANGED <<pos, matches, tokens, expr, wexpr, indent, out, raw, res, apl, idx, groups>>

Tokenize ==
    /\ pc = "replaced"
    /\ tokens' = tokenize_line(line)
    /\ pc' = "tokenized"
    /\ UNCHANGED <<line, pos, matches, expr, wexpr, indent, out, raw, res, apl, idx, groups>>

MapSymbols ==
    /\ pc = "tokenized"
    /\ tokens' = MapTokens(tokens)
    /\ pc' = "mapped"
    /\ UNCHANGED <<line, pos, matches, expr, wexpr, indent, out, raw, res, apl, idx, groups>>

ParseCond ==
    /\ pc = "mapped"
    /\ expr' = parse_expr(tokens)
    /\ pc' = "parsed"
    /\ UNCHANGED <<line, pos, matches, tokens, wexpr, indent, out, raw, res, apl, idx, groups>>

RenderCond ==
    /\ pc = "parsed"
    /\ indent' = 1
    /\ out' = pretty_format_condition(expr, 1)
    /\ pc' = "formatted"
    /\ UNCHANGED <<line, pos, matches, tokens, expr, wexpr, raw, res, apl, idx, groups>>

NextCond == Replace \/ Tokenize \/ MapSymbols \/ ParseCond \/ RenderCond

SpecCond == InitCond /\ [][NextCond]_vars

-----------------------------------------------------------------------------
(* The line processor at work on one line.                                 *)

LineLefts ==
    {<< >>, <<"k">>, <<" ", "a", "c", "t", "i", "o", "n", "s", ".", "k", " ">>, <<"a", "c", "t", "i", "o", "n", "s", ".", "a", "c", "t", "i", "o", "n", "s", ".", "k">>, <<"a", "c", "t", "i", "o", "n", "s">>, <<"#", "k">>}

LineSeparators == {<< >>, <<"=">>, <<"+", "=", "/">>, <<"=", "+", "=", "/">>, <<"+", "=", "/", "=">>, <<"+", "=">>}

LineBodies == {<< >>, <<"b">>, <<" ", "b", " ", "c", " ">>}

LineConditions == {<< >>, <<",", "i", "f", "=", "x">>, <<",", "i", "f", "=", " ", "a", "|", "b", " ", ",", "i", "f", "=", "c">>, <<",", "i", "f">>}

LineExamples ==
    { <<"a", "c", "t", "i", "o", "n", "s", ".", "f", "o", "o", "=", "b", "a", "r">>,
      <<"a", "c", "t", "i", "o", "n", "s", ".", "p", "r", "e", "c", "o", "m", "b", "a", "t", "=", "s", "n", "a", "p", "s", "h", "o", "t", "_", "s", "t", "a", "t", "s">>,
      <<"a", "c", "t", "i", "o", "n", "s", "+", "=", "/", "f", "i", "r", "e", "b", "a", "l", "l", ",", "i", "f", "=", "t", "a", "l", "e", "n", "t", ".", "p", "y", "r", "o", "m", "a", "n", "i", "a", "&", "!", "d", "e", "b", "u", "f", "f", ".", "b", "u", "r", "n", "i", "n", "g">>,
      <<"a", "c", "t", "i", "o", "n", "s", "+", "=", "/", "f", "r", "o", "s", "t", "b", "o", "l", "t", ",", "i", "f", "=", "m", "a", "n", "a", ">", "5", "0", "|", "t", "a", "l", "e", "n", "t", ".", "i", "c", "y", "_", "v", "e", "i", "n", "s">> }

LineInputs ==
    LineExamples
    \cup {l \o sep \o b \o c :
             l \in LineLefts, sep \in LineSeparators,
             b \in LineBodies, c \in LineConditions}

InitLine ==
    /\ pc = "line"
    /\ line \in LineInputs
    /\ res = << >>
    /\ pos = 0 /\ matches = Unused /\ tokens = Unused /\ raw = Unused
    /\ ParseIdle /\ GroupIdle

ProcessLine ==
    /\ pc = "line"
    /\ res' = process_line(line)
    /\ pc' = "processed"
    /\ UNCHANGED <<line, pos, matches, tokens, expr, wexpr, indent, out, raw, apl, idx, groups>>

NextLine == ProcessLine

SpecLine == InitLine /\ [][NextLine]_vars

-----------------------------------------------------------------------------
(* The script grouper at work: the loop of process_apl_grouped.            *)

ScriptLines ==
    { <<"z", "e", "t", "a", "=", "1">>, <<"a", "l", "p", "h", "a", "=", "2", "\r">>, <<" ", "a", "c", "t", "i", "o", "n", "s", ".", "z", "e", "t", "a", "+", "=", "/", "3", " ">>,
      <<" ", "a", "l", "p", "h", "a", "+", "=", "/", "x", ",", "i", "f", "=", "a", "|", "b">>, <<" ", "#", " ", "c", "=", "d">>, <<" ", " ">>, <<"n", "o", "s", "e", "p">> }

Scripts == {Join(ls, Newline) : ls \in AllSeqs(ScriptLines, MaxLines)}

InitGroup ==
    /\ pc = "loop"
    /\ apl \in Scripts
    /\ idx = 0
    /\ groups = << >>
    /\ TokIdle /\ tokens = Unused /\ ParseIdle /\ LineIdle

ConsumeLine ==
    /\ pc = "loop"
    /\ idx < Len(Lines(apl))
    /\ groups' = LoopBody(groups, Lines(apl)[idx + 1])
    /\ idx' = idx + 1
    /\ UNCHANGED <<pc, line, pos, matches, tokens, expr, wexpr, indent, out, raw, res, apl>>

Return ==
    /\ pc = "loop"
    /\ idx = Len(Lines(apl))
    /\ pc' = "returned"
    /\ UNCHANGED <<line, pos, matches, tokens, expr, wexpr, indent, out, raw, res, apl, idx, groups>>

NextGroup == ConsumeLine \/ Return

SpecGroup == InitGroup /\ [][NextGroup]_vars

-----------------------------------------------------------------------------
(* Notions the properties are stated with.                                 *)

\* The parenthesis depth in front of token i: the "(" minus the ")" before it.
DepthBefore(toks, i) ==
    Cardinality({j \in 1..(i - 1) : toks[j] = LParen})
    - Cardinality({j \in 1..(i - 1) : toks[j] = RParen})

\* The places of the token op at depth 0.
TopLevelAt(toks, op) == {i \in 1..Len(toks) : toks[i] = op /\ DepthBefore(toks, i) = 0}

\* The k-th smallest element of the set I of numbers.
Nth(I, k) == CHOOSE i \in I : Cardinality({j \in I : j < i}) = k - 1

\* The maximal ranges of toks between the places I, left to right.
RangesBetween(toks, I) ==
    [k \in 1..(Cardinality(I) + 1) |->
        SubSeq(toks,
               IF k = 1 THEN 1 ELSE Nth(I, k - 1) + 1,
               IF k = Cardinality(I) + 1 THEN Len(toks) ELSE Nth(I, k) - 1)]

\* Parentheses well-formed: the depth never goes negative and ends at 0.
WellFormed(toks) ==
    /\ \A i \in 1..Len(toks) : DepthBefore(toks, i + 1) >= 0
    /\ DepthBefore(toks, Len(toks) + 1) = 0

\* The lines of a text: the pieces between its "\n".
RECURSIVE SplitNL(_)
SplitNL(s) ==
    LET i == Find(Newline, s)
    IN IF i = 0 THEN <<s>>
       ELSE <<SubSeq(s, 1, i - 1)>> \o SplitNL(SubSeq(s, i + 1, Len(s)))

\* The number of spaces a line begins with.
LeadingSpaces(l) ==
    IF \A i \in 1..Len(l) : l[i] = " " THEN Len(l)
    ELSE (CHOOSE i \in 1..Len(l) : l[i] # " " /\ \A j \in 1..(i - 1) : l[j] = " ") - 1

\* Every Atom of the tree has a text that begins with a character other than
\* a space (so no Atom is empty).
RECURSIVE AtomsStartWithText(_)
AtomsStartWithText(e) ==
    IF e.tag = "Atom" THEN e.text # << >> /\ e.text[1] # " "
    ELSE \A k \in 1..Len(e.parts) : AtomsStartWithText(e.parts[k])

\* The text without its whitespace.
NoSpace(s) == SelectSeq(s, LAMBDA c : c \notin WhiteSpace)

-----------------------------------------------------------------------------
(* The tokenizer's property.                                               *)

\* C5: once tokenize_line has collected the tokens of a line, the tokens are
\* the pieces of the line in left-to-right order with the whitespace dropped;
\* every occurrence of "<=" or ">=" in the line is one two-character token,
\* and no "<" or ">" token is directly followed by a "=" token; every token
\* is "<=", ">=", one of the one-character operators, or a maximal run of
\* characters that are neither operator characters nor whitespace; the empty
\* line has no token, and "dmg<=5" gives dmg, <=, 5.
C5_TokensOfLine ==
    pc = "collected" =>
        /\ Len(tokens) = Len(matches)
        /\ \A k \in 1..Len(tokens) :
              tokens[k] = SubSeq(line, matches[k].start, matches[k].end)
        /\ \A k \in 1..(Len(matches) - 1) : matches[k].end < matches[k + 1].start
        /\ Join(tokens, << >>) = NoSpace(line)
        /\ \A i \in 1..(Len(line) - 1) :
              (line[i] \in {"<", ">"} /\ line[i + 1] = "=") =>
                  \E k \in 1..Len(tokens) :
                      matches[k].start = i /\ tokens[k] = <<line[i], "=">>
        /\ \A k \in 1..(Len(tokens) - 1) :
              ~(/\ tokens[k] \in {<<"<">>, <<">">>}
                /\ tokens[k + 1] = <<"=">>
                /\ matches[k + 1].start = matches[k].end + 1)
        /\ \A k \in 1..Len(tokens) :
              \/ tokens[k] \in {<<"<", "=">>, <<">", "=">>}
              \/ Len(tokens[k]) = 1 /\ tokens[k][1] \in OpChars
              \/ /\ Len(tokens[k]) >= 1
                 /\ \A j \in 1..Len(tokens[k]) : tokens[k][j] \notin OpChars \cup WhiteSpace
                 /\ (matches[k].start = 1
                     \/ line[matches[k].start - 1] \in OpChars \cup WhiteSpace)
                 /\ (matches[k].end = Len(line)
                     \/ line[matches[k].end + 1] \in OpChars \cup WhiteSpace)
        /\ (line = << >> => tokens = << >>)
        /\ (line = <<"d", "m", "g", "<", "=", "5">> => tokens = <<<<"d", "m", "g">>, <<"<", "=">>, <<"5">>>>)

\* C5's case: the tokens of "dmg<=5" have been collected.
C5_Witness ==
    /\ pc = "collected"
    /\ line = <<"d", "m", "g", "<", "=", "5">>
    /\ Len(tokens) = 3

-----------------------------------------------------------------------------
(* The parser's properties.                                                *)

\* C1: when the token sequence has an "or" at parenthesis depth 0, parse_expr
\* returns an Or node whose children are parse_expr of each maximal range
\* between the depth-0 "or" tokens, left to right, whatever "and" tokens there
\* are; "a and b or c" parses to Or(And(Atom a, Atom b), Atom c).
C1_OrIsOutermost ==
    (pc # "tokens" /\ TopLevelAt(tokens, OrTok) # {}) =>
        /\ expr.tag = "Or"
        /\ LET ranges == RangesBetween(tokens, TopLevelAt(tokens, OrTok))
           IN /\ Len(expr.parts) = Len(ranges)
              /\ \A k \in 1..Len(ranges) : expr.parts[k] = parse_expr(ranges[k])
        /\ (tokens = <<<<"a">>, <<"a", "n", "d">>, <<"b">>, <<"o", "r">>, <<"c">>>> =>
               expr = Or(<<And(<<Atom(<<"a">>), Atom(<<"b">>)>>), Atom(<<"c">>)>>))

\* C1's case: "a and b or c" has been parsed.
C1_Witness ==
    /\ pc = "parsed"
    /\ tokens = <<<<"a">>, <<"a", "n", "d">>, <<"b">>, <<"o", "r">>, <<"c">>>>
    /\ expr.tag = "Or"
    /\ Len(expr.parts) = 2

\* C4: when the parentheses of the token sequence T are well-formed,
\* parse_expr of "(" T ")" is the tree parse_expr(T); "( a and b )" parses as
\* "a and b".  When the sequence starts with "(" and ends with ")" and what is
\* between them is not well-formed, that pair is not stripped: the result is
\* not the parse of what is between them, and with no "or" and no "and" at
\* depth 0 it is the Atom of all the tokens, both parentheses included.
C4_RedundantParentheses ==
    pc \in {"grouped", "rendered"} =>
        /\ (WellFormed(tokens) => wexpr = expr)
        /\ (tokens = <<<<"a">>, <<"a", "n", "d">>, <<"b">>>> => wexpr = And(<<Atom(<<"a">>), Atom(<<"b">>)>>))
        /\ (/\ Len(tokens) >= 2
            /\ tokens[1] = LParen
            /\ tokens[Len(tokens)] = RParen
            /\ ~WellFormed(SubSeq(tokens, 2, Len(tokens) - 1)))
           => /\ expr # parse_expr(SubSeq(tokens, 2, Len(tokens) - 1))
              /\ (TopLevelAt(tokens, OrTok) \cup TopLevelAt(tokens, AndTok) = {}
                     => expr = Atom(Join(tokens, Space)))
        /\ (tokens = <<<<"(">>, <<"a">>, <<")">>, <<"x">>, <<"(">>, <<"b">>, <<")">>>> => expr = Atom(<<"(", " ", "a", " ", ")", " ", "x", " ", "(", " ", "b", " ", ")">>))

\* C4's case: "( a and b )" has been parsed, from the tokens "a and b".
C4_Witness ==
    /\ pc = "grouped"
    /\ tokens = <<<<"a">>, <<"a", "n", "d">>, <<"b">>>>
    /\ wexpr.tag = "And"

-----------------------------------------------------------------------------
(* The printer's properties.                                               *)

\* Every line of the rendering begins with a multiple of 4 spaces, and the
\* first line with exactly 4 * indent spaces.
IndentedByFours ==
    LET ls == SplitNL(out)
    IN /\ \A k \in 1..Len(ls) : LeadingSpaces(ls[k]) % 4 = 0
       /\ LeadingSpaces(ls[1]) = 4 * indent

\* C8, as claimed: for every tree parse_expr produced and every indent level,
\* every line of the rendering begins with a multiple of 4 spaces and the
\* first line with exactly 4 * indent spaces.
C8_AsClaimed == pc = "rendered" => IndentedByFours

\* C8, amended: the same, for every tree parse_expr produced in which the
\* text of every Atom begins with a character other than a space (no operand
\* is empty and no operand begins with an empty token).
C8_IndentedByFours ==
    (pc = "rendered" /\ AtomsStartWithText(expr)) => IndentedByFours

\* C8's case: an And with an Or block has been rendered at level 2.
C8_Witness ==
    /\ pc = "rendered"
    /\ indent = 2
    /\ AtomsStartWithText(expr)
    /\ expr.tag = "And"
    /\ Len(SplitNL(out)) > 1

\* C9: when an Or with at least 2 children is rendered at level n, the
\* renderings of the children are joined by newlines, the first child is
\* rendered at level n unchanged, and the rendering of every later child
\* begins with the level-n indent and "OR " and has at least 4 * n leading
\* spaces on every one of its lines.
C9_OrChildrenIndented ==
    (pc = "rendered" /\ expr.tag = "Or" /\ Len(expr.parts) >= 2) =>
        /\ out = Join([k \in 1..Len(expr.parts) |-> OrPart(expr.parts, k, indent)],
                      Newline)
        /\ OrPart(expr.parts, 1, indent) = pretty_format_condition(expr.parts[1], indent)
        /\ \A k \in 2..Len(expr.parts) :
              LET r == OrPart(expr.parts, k, indent)
                  ls == SplitNL(r)
              IN /\ StartsWith(r, IndentStr(indent) \o <<"O", "R", " ">>)
                 /\ \A j \in 1..Len(ls) : LeadingSpaces(ls[j]) >= 4 * indent

\* C10: when an And with at least 2 children is rendered at level n, the
\* rendering is the level-n indent followed by the fragments of the children
\* joined by " AND "; the fragment of a child that is an Or with at least 2
\* children is "(", newline, the child rendered at level n + 1, newline, the
\* level-n indent and ")"; the fragment of every other child has no newline.
C10_AndFragmentsOnOneLine ==
    (pc = "rendered" /\ expr.tag = "And" /\ Len(expr.parts) >= 2) =>
        /\ out = IndentStr(indent)
                 \o Join([k \in 1..Len(expr.parts) |-> AndPart(expr.parts[k], indent)],
                         <<" ", "A", "N", "D", " ">>)
        /\ \A k \in 1..Len(expr.parts) :
              LET child == expr.parts[k]
                  frag == AndPart(child, indent)
              IN IF child.tag = "Or" /\ Len(child.parts) >= 2
                 THEN frag = <<"(">> \o Newline \o pretty_format_condition(child, indent + 1)
                             \o Newline \o IndentStr(indent) \o <<")">>
                 ELSE \A j \in 1..Len(frag) : frag[j] # "\n"

-----------------------------------------------------------------------------
(* The condition transformer's property.                                   *)

StacksCondition == <<"b", "u", "f", "f", ".", "s", "t", "a", "c", "k", "s", ">", "=", "3">>

\* C7, as claimed: the condition "buff.stacks>=3" renders as one atom whose
\* text is exactly "stacks>=3", preceded only by the level-1 indentation.
C7_AsClaimed ==
    (pc = "formatted" /\ raw = StacksCondition) =>
        /\ expr = Atom(<<"s", "t", "a", "c", "k", "s", ">", "=", "3">>)
        /\ out = <<" ", " ", " ", " ", "s", "t", "a", "c", "k", "s", ">", "=", "3">>

\* C7, amended: the condition "buff.stacks>=3" renders as one atom whose text
\* is exactly "stacks >= 3" ("buff." removed and the three tokens stacks, >=, 3
\* joined by single spaces), preceded only by the level-1 indentation.
C7_StacksAtom ==
    (pc = "formatted" /\ raw = StacksCondition) =>
        /\ tokens = <<<<"s", "t", "a", "c", "k", "s">>, <<">", "=">>, <<"3">>>>
        /\ expr = Atom(<<"s", "t", "a", "c", "k", "s", " ", ">", "=", " ", "3">>)
        /\ out = <<" ", " ", " ", " ", "s", "t", "a", "c", "k", "s", " ", ">", "=", " ", "3">>

\* C7's case: "buff.stacks>=3" has gone through the transformer.
C7_Witness ==
    /\ pc = "formatted"
    /\ raw = StacksCondition
    /\ expr.tag = "Atom"

\* The steps of the transformer, taken one by one, give what transform_condition
\* gives in one go.
StepsAgree == pc = "formatted" => out = transform_condition(raw)

-----------------------------------------------------------------------------
(* The line processor's properties.                                        *)

\* The index of the first occurrence of sub in s (sub occurs in s).
FirstIndex(sub, s) ==
    CHOOSE i \in 1..Len(s) :
        OccursAt(sub, s, i) /\ \A j \in 1..Len(s) : OccursAt(sub, s, j) => i <= j

Contains(s, sub) == \E i \in 1..Len(s) : OccursAt(sub, s, i)

\* What C2 says process_line returns for a line with a separator.
ExpectedOfLine(l) ==
    LET sep == IF Contains(l, <<"+", "=", "/">>) THEN <<"+", "=", "/">> ELSE <<"=">>
        p == FirstIndex(sep, l)
        left == Trim(SubSeq(l, 1, p - 1))
        right == Trim(SubSeq(l, p + Len(sep), Len(l)))
        key == IF StartsWith(left, <<"a", "c", "t", "i", "o", "n", "s", ".">>)
               THEN SubSeq(left, Len(<<"a", "c", "t", "i", "o", "n", "s", ".">>) + 1, Len(left))
               ELSE left
    IN IF Contains(right, <<",", "i", "f", "=">>)
       THEN LET q == FirstIndex(<<",", "i", "f", "=">>, right)
            IN [some |-> TRUE, key |-> key,
                entry |-> Trim(SubSeq(right, 1, q - 1)) \o <<":", "\n">>
                          \o transform_condition(SubSeq(right, q + 4, Len(right)))]
       ELSE [some |-> TRUE, key |-> key, entry |-> right]

\* C2: process_line returns nothing exactly when the line has neither "+=/"
\* nor "="; otherwise the line is split at its first "+=/" if it has one (even
\* after an earlier "=") and else at its first "=", the key is the trimmed
\* left part less one leading "actions.", and the entry is the trimmed text of
\* the right part before its first ",if=", followed by ":", newline and the
\* transformed condition when there is a ",if="; "actions.foo=bar" gives the
\* key "foo" and the entry "bar".
C2_ProcessLine ==
    pc = "processed" =>
        /\ (~res.some <=> (~Contains(line, <<"+", "=", "/">>) /\ ~Contains(line, <<"=">>)))
        /\ (res.some => res = ExpectedOfLine(line))
        /\ (line = <<"a", "c", "t", "i", "o", "n", "s", ".", "f", "o", "o", "=", "b", "a", "r">> =>
               res = [some |-> TRUE, key |-> <<"f", "o", "o">>, entry |-> <<"b", "a", "r">>])

\* C2's case: a line with an "=" before its "+=/" and two ",if=" has been processed.
C2_Witness ==
    /\ pc = "processed"
    /\ line = <<"k", "=", "+", "=", "/", " ", "b", " ", "c", " ", ",", "i", "f", "=", " ", "a", "|", "b", " ", ",", "i", "f", "=", "c">>
    /\ res.some
    /\ res.key = <<"k", "=">>

FireballLine == <<"a", "c", "t", "i", "o", "n", "s", "+", "=", "/", "f", "i", "r", "e", "b", "a", "l", "l", ",", "i", "f", "=", "t", "a", "l", "e", "n", "t", ".", "p", "y", "r", "o", "m", "a", "n", "i", "a", "&", "!", "d", "e", "b", "u", "f", "f", ".", "b", "u", "r", "n", "i", "n", "g">>

\* C6, as claimed: the entry of the fireball line is "fireball:" followed by
\* the two atoms "pyromania talented" and "burning not talented" joined by
\* " AND ", and no "!" remains in it.
C6_AsClaimed ==
    (pc = "processed" /\ line = FireballLine) =>
        /\ res.entry = <<"f", "i", "r", "e", "b", "a", "l", "l", ":">> \o Newline
                       \o <<" ", " ", " ", " ", "p", "y", "r", "o", "m", "a", "n", "i", "a", " ", "t", "a", "l", "e", "n", "t", "e", "d", " ", "A", "N", "D", " ", "b", "u", "r", "n", "i", "n", "g", " ", "n", "o", "t", " ", "t", "a", "l", "e", "n", "t", "e", "d">>
        /\ ~Contains(res.entry, <<"!">>)

\* C6, amended: the entry of the fireball line is "fireball:" followed by the
\* two atoms "pyromania talented" and "!burning" joined by " AND ": "debuff."
\* is stripped, and the "!" stays, being part of the token "!debuff.burning"
\* (only a "!" that is a token of its own is translated to "not").
C6_FireballEntry ==
    (pc = "processed" /\ line = FireballLine) =>
        /\ res.some
        /\ res.entry = <<"f", "i", "r", "e", "b", "a", "l", "l", ":">> \o Newline
                       \o <<" ", " ", " ", " ", "p", "y", "r", "o", "m", "a", "n", "i", "a", " ", "t", "a", "l", "e", "n", "t", "e", "d", " ", "A", "N", "D", " ", "!", "b", "u", "r", "n", "i", "n", "g">>
        /\ ~Contains(res.entry, <<"d", "e", "b", "u", "f", "f", ".">>)

\* C6's case: the fireball line has been processed.
C6_Witness ==
    /\ pc = "processed"
    /\ line = FireballLine
    /\ res.some
    /\ Contains(res.entry, <<" ", "A", "N", "D", " ">>)

-----------------------------------------------------------------------------
(* The script grouper's property.                                          *)

\* The lines process_apl_grouped has consumed.
Consumed == SubSeq(Lines(apl), 1, idx)

\* A line that counts: not empty after trimming, no comment, with a separator.
Counts(l) ==
    /\ Trim(l) # << >>
    /\ ~StartsWith(Trim(l), <<"#">>)
    /\ process_line(l).some

\* The entries of the lines of ls that count and yield key k, in line order.
RECURSIVE EntriesFor(_, _)
EntriesFor(ls, k) ==
    IF ls = << >> THEN << >>
    ELSE (IF Counts(Head(ls)) /\ process_line(Head(ls)).key = k
          THEN <<process_line(Head(ls)).entry>> ELSE << >>)
         \o EntriesFor(Tail(ls), k)

\* C3: after process_apl_grouped has consumed any number of lines, the keys
\* of the result are in strictly increasing lexicographic order, the keys are
\* those of the consumed lines that count, and the entries of every key are
\* the entries process_line yields for the consumed lines that count and yield
\* that key, in line order; so a blank line, a comment and a line with no
\* separator add nothing.
C3_GroupsByKey ==
    /\ \A k \in 1..(Len(groups) - 1) : Less(groups[k].key, groups[k + 1].key)
    /\ {groups[k].key : k \in 1..Len(groups)}
       = {process_line(Consumed[i]).key : i \in {j \in 1..idx : Counts(Consumed[j])}}
    /\ \A k \in 1..Len(groups) :
          groups[k].entries = EntriesFor(Consumed, groups[k].key)
    /\ (pc = "returned" => groups = process_apl_grouped(apl))

\* C3's case: a script whose first line has the key zeta has been grouped
\* into the keys alpha and zeta, zeta with two entries.
C3_Witness ==
    /\ pc = "returned"
    /\ Len(groups) = 2
    /\ groups[1].key = <<"a", "l", "p", "h", "a">>
    /\ groups[2].key = <<"z", "e", "t", "a">>
    /\ Len(groups[2].entries) = 2
    /\ Lines(apl)[1] = <<"z", "e", "t", "a", "=", "1">>

====
